---- MODULE Spec2Model ----
(***************************************************************************)
(* Model of the registration form of the distribution-center signup page   *)
(* (src/src/components/auth/CenterSignupPage.tsx): the draft held in the    *)
(* formData state, its scoped mutators, validateForm, and the asynchronous  *)
(* handleSubmit with the register requests it leaves in flight; and of the  *)
(* login page (src/src/components/auth/LoginPage.tsx): its role gate and    *)
(* handleLogin with the login requests it leaves in flight.                 *)
(*                                                                          *)
(* JavaScript strings whose characters matter (password, confirmation,      *)
(* phone number, typed capacity) are sequences of one-character strings;    *)
(* all other strings are TLA+ strings.  JavaScript objects are functions    *)
(* from property names to values, so that a read of a missing property      *)
(* (undefined) can be told from a read of a present one.                    *)
(***************************************************************************)
EXTENDS Integers, Sequences, FiniteSets, TLC

VARIABLES
  formData,    \* useState<CenterFormData>: the registration draft
  isLoading,   \* useState(false): the loading flag shown on the submit button
  mounted,     \* TRUE while this instance of the component is mounted
  inflight,    \* register requests awaiting their response, oldest first
  lastEvent,   \* the handler (or continuation) that ran in the last step, with its inputs
  alerts,      \* the messages passed to alert() by the last step, in order
  posted,      \* the bodies of the POST /api/auth/register issued by the last step
  notified,    \* the number of onSignupSuccess() calls made by the last step
  thrown,      \* the uncaught error raised by the last step, or "none"
  validated,   \* the value returned by the last direct call of validateForm
  login        \* the login page: its useState values, its requests in flight, and
               \* what its last step posted and handed to onLogin

vars == <<formData, isLoading, mounted, inflight, lastEvent, alerts, posted,
          notified, thrown, validated, login>>

-----------------------------------------------------------------------------
(* Bounds of the model *)

\* at most this many register requests await their response at once
MaxInFlight == 2
\* array fields are followed up to this length
MaxArrayLen == 4
\* passwords handed to validateForm directly have at most this many characters
MaxPwLen == 6
\* at most this many login requests await their response at once
MaxLoginInFlight == 2
\* at most this many documents are staged at once
MaxDocuments == 3

-----------------------------------------------------------------------------
(* JavaScript helpers *)

\* the value null returned by validateForm when no rule is violated
null == "<null>"

\* obj.hasOwnProperty(key): a read of a missing key yields undefined
HasKey(obj, key) == key \in DOMAIN obj

\* { ...obj, [key]: value }
SetKey(obj, key, value) ==
  [k \in (DOMAIN obj) \cup {key} |-> IF k = key THEN value ELSE obj[k]]

\* array.includes(v)
Includes(arr, v) == \E i \in 1..Len(arr) : arr[i] = v

\* array.filter((item) => item !== v)
RECURSIVE FilterOut(_, _)
FilterOut(arr, v) ==
  IF arr = <<>> THEN <<>>
  ELSE IF Head(arr) = v THEN FilterOut(Tail(arr), v)
       ELSE <<Head(arr)>> \o FilterOut(Tail(arr), v)

\* the number of entries of arr equal to v
RECURSIVE Count(_, _)
Count(arr, v) ==
  IF arr = <<>> THEN 0
  ELSE (IF Head(arr) = v THEN 1 ELSE 0) + Count(Tail(arr), v)

\* string.startsWith(prefix), on character sequences
StartsWith(s, prefix) ==
  /\ Len(s) >= Len(prefix)
  /\ SubSeq(s, 1, Len(prefix)) = prefix

LowerChars == {"a", "b", "c", "d", "e", "f"}
UpperChars == {"A", "B", "C"}
DigitChars == {"0", "1", "2", "3", "4", "5", "6", "7", "8", "9"}

DigitSeq == <<"0", "1", "2", "3", "4", "5", "6", "7", "8", "9">>
DigitValue(c) == (CHOOSE i \in 1..Len(DigitSeq) : DigitSeq[i] = c) - 1

\* parseInt(text) || 0 for the text of an <input type="number">: the empty
\* text parses to NaN, which is falsy, and so does a parsed 0
RECURSIVE DecimalValue(_)
DecimalValue(s) ==
  IF s = <<>> THEN 0
  ELSE 10 * DecimalValue(SubSeq(s, 1, Len(s) - 1)) + DigitValue(s[Len(s)])

ParseIntOrZero(text) ==
  IF text = <<>> THEN 0
  ELSE IF Head(text) = "-" THEN
         (IF Len(text) = 1 THEN 0 ELSE 0 - DecimalValue(Tail(text)))
       ELSE DecimalValue(text)

-----------------------------------------------------------------------------
(* The draft *)

nepalProvinces ==
  <<"Province 1", "Madhesh Province", "Bagmati Province", "Gandaki Province",
    "Lumbini Province", "Karnali Province", "Sudurpashchim Province">>

availableServices ==
  <<"Storage", "Packaging", "Distribution", "Quality Check", "Returns Processing">>

workingDaysOptions ==
  <<"Monday", "Tuesday", "Wednesday", "Thursday", "Friday", "Saturday", "Sunday">>

InitialFormData ==
  [ centerName        |-> "",
    contactPersonName |-> "",
    email             |-> "",
    phoneNumber       |-> <<>>,
    password          |-> <<>>,
    confirmPassword   |-> <<>>,
    address           |-> [street |-> "", city |-> "", state |-> "", pincode |-> ""],
    region            |-> "",
    operationalDetails |->
      [ capacity     |-> 100,
        workingHours |-> [start |-> "09:00", end |-> "18:00"],
        workingDays  |-> <<"Monday", "Tuesday", "Wednesday", "Thursday", "Friday">> ],
    services          |-> <<"Storage", "Distribution">>,
    documents         |-> <<>> ]

-----------------------------------------------------------------------------
(* validateForm *)

MsgMismatch   == "Passwords do not match"
MsgLength     == "Password must be at least 6 characters long"
MsgComplexity == "Password must contain at least one uppercase letter, one lowercase letter, and one number"
MsgCapacity   == "Capacity must be at least 1"
MsgWorkingDay == "Please select at least one working day"
MsgService    == "Please select at least one service"

\* /^(?=.*[a-z])(?=.*[A-Z])(?=.*\d)/.test(password)
passwordRegexTest(password) ==
  /\ \E i \in 1..Len(password) : password[i] \in LowerChars
  /\ \E i \in 1..Len(password) : password[i] \in UpperChars
  /\ \E i \in 1..Len(password) : password[i] \in DigitChars

\* a validateForm that tests the complexity before the length
validateFormComplexityFirst(fd) ==
  IF fd.password /= fd.confirmPassword THEN MsgMismatch
  ELSE IF ~passwordRegexTest(fd.password) THEN MsgComplexity
  ELSE IF Len(fd.password) < 6 THEN MsgLength
  ELSE IF fd.operationalDetails.capacity < 1 THEN MsgCapacity
  ELSE IF Len(fd.operationalDetails.workingDays) = 0 THEN MsgWorkingDay
  ELSE IF Len(fd.services) = 0 THEN MsgService
  ELSE null

\* a validateForm that forgets the capacity rule
validateFormNoCapacity(fd) ==
  IF fd.password /= fd.confirmPassword THEN MsgMismatch
  ELSE IF Len(fd.password) < 6 THEN MsgLength
  ELSE IF ~passwordRegexTest(fd.password) THEN MsgComplexity
  ELSE IF Len(fd.operationalDetails.workingDays) = 0 THEN MsgWorkingDay
  ELSE IF Len(fd.services) = 0 THEN MsgService
  ELSE null

validateForm(fd) ==
  IF fd.password /= fd.confirmPassword THEN MsgMismatch
  ELSE IF Len(fd.password) < 6 THEN MsgLength
  ELSE IF ~passwordRegexTest(fd.password) THEN MsgComplexity
  ELSE IF fd.operationalDetails.capacity < 1 THEN MsgCapacity
  ELSE IF Len(fd.operationalDetails.workingDays) = 0 THEN MsgWorkingDay
  ELSE IF Len(fd.services) = 0 THEN MsgService
  ELSE null

-----------------------------------------------------------------------------
(* The transport: what axiosInstance.post("/api/auth/register", ...) can      *)
(* deliver.  A resolved promise carries response.data (or none, an            *)
(* unexpected shape); a rejected one carries error.response.data, or no       *)
(* response at all (network unreachable, timeout).                            *)

EnvSuccess     == [success |-> TRUE]
EnvFieldErrors == [success |-> FALSE,
                   errors  |-> <<[field |-> "email", message |-> "already registered"]>>]
EnvTwoErrors   == [success |-> FALSE,
                   message |-> "Validation failed",
                   errors  |-> <<[field |-> "email", message |-> "already registered"],
                                 [field |-> "phone", message |-> "invalid number"]>>]
EnvMessage     == [success |-> FALSE, message |-> "Registration is closed"]
EnvBare        == [success |-> FALSE]

FailureEnvelopes == {EnvFieldErrors, EnvTwoErrors, EnvMessage, EnvBare}

ResolvedResponses ==
  {[kind |-> "resolved", hasData |-> TRUE, data |-> env] :
      env \in {EnvSuccess} \cup FailureEnvelopes}
  \cup {[kind |-> "resolved", hasData |-> FALSE]}

\* error.message of the errors thrown by the transport
MsgAxiosStatus  == "Request failed with status code 400"
MsgAxiosNetwork == "Network Error"

RejectedErrors ==
  {[kind |-> "rejected", hasResponse |-> TRUE, data |-> env, message |-> MsgAxiosStatus] :
      env \in FailureEnvelopes}
  \cup {[kind |-> "rejected", hasResponse |-> FALSE, message |-> MsgAxiosNetwork]}

MsgSubmitted ==
  "Application submitted successfully! Your application has been sent to the admin for verification."
MsgFailedFallback == "Failed to submit application. Please try again."
MsgErrorFallback ==
  "An error occurred while submitting your application. Please try again."

\* a display that always prefers the fallback over the message of the envelope
MessageOrAlwaysFallback(data, fallback) == fallback

\* data.message || fallback
MessageOr(data, fallback) ==
  IF HasKey(data, "message") /\ data.message /= "" THEN data.message ELSE fallback

\* a join of the error lines with ", " in place of the newline
RECURSIVE errorMessagesCommaJoined(_)
errorMessagesCommaJoined(errors) ==
  IF errors = <<>> THEN ""
  ELSE IF Len(errors) = 1 THEN errors[1].field \o ": " \o errors[1].message
  ELSE errors[1].field \o ": " \o errors[1].message \o ", "
         \o errorMessagesCommaJoined(Tail(errors))

\* errors.map((err) => `${err.field}: ${err.message}`).join("\n")
RECURSIVE errorMessages(_)
errorMessages(errors) ==
  IF errors = <<>> THEN ""
  ELSE IF Len(errors) = 1 THEN errors[1].field \o ": " \o errors[1].message
  ELSE errors[1].field \o ": " \o errors[1].message \o "\n"
         \o errorMessages(Tail(errors))

-----------------------------------------------------------------------------
(* State setters and the callbacks handed in by the parent *)

\* setIsLoading(v): a state update of an unmounted component is dropped
setIsLoading(v) == isLoading' = IF mounted THEN v ELSE isLoading

\* onShowRoleSelection(): the parent leaves the registration view
onShowRoleSelection == mounted' = FALSE

\* onSignupSuccess(): the parent navigates back to login, the draft is discarded
onSignupSuccess == mounted' = FALSE

\* what a step that raises nothing and talks to nobody leaves behind
Quiet ==
  /\ alerts' = <<>>
  /\ posted' = <<>>
  /\ notified' = 0
  /\ thrown' = "none"

-----------------------------------------------------------------------------
(* The scoped mutators *)

handleInputChange(field, value) ==
  /\ mounted
  /\ formData' = SetKey(formData, field, value)
  /\ lastEvent' = [op |-> "handleInputChange", field |-> field]
  /\ Quiet
  /\ UNCHANGED <<isLoading, mounted, inflight, validated, login>>

\* a mutator that builds the nested record from the one field alone
handleNestedInputChangeDropsSiblings(parent, field, value) ==
  /\ mounted
  /\ formData' = SetKey(formData, parent, [f \in {field} |-> value])
  /\ lastEvent' = [op |-> "handleNestedInputChange", parent |-> parent, field |-> field,
                   value |-> value]
  /\ Quiet
  /\ UNCHANGED <<isLoading, mounted, inflight, validated, login>>

handleNestedInputChange(parent, field, value) ==
  /\ mounted
  /\ formData' = SetKey(formData, parent, SetKey(formData[parent], field, value))
  /\ lastEvent' = [op |-> "handleNestedInputChange", parent |-> parent, field |-> field,
                   value |-> value]
  /\ Quiet
  /\ UNCHANGED <<isLoading, mounted, inflight, validated, login>>

\* the updater of handleArrayInputChange: prev[field] is read by the literal
\* name, so a dotted path names a top-level property
arrayUpdate(prev, field, value, checked) ==
  SetKey(prev, field,
         IF checked THEN Append(prev[field], value)
         ELSE FilterOut(prev[field], value))

\* [...undefined, value] and undefined.filter(...) raise a TypeError inside the
\* updater; the error surfaces while rendering and React unmounts the component
handleArrayInputChange(field, value, checked) ==
  /\ mounted
  /\ lastEvent' = [op |-> "handleArrayInputChange", field |-> field,
                   value |-> value, checked |-> checked]
  /\ alerts' = <<>>
  /\ posted' = <<>>
  /\ notified' = 0
  /\ IF HasKey(formData, field)
     THEN /\ formData' = arrayUpdate(formData, field, value, checked)
          /\ thrown' = "none"
          /\ UNCHANGED mounted
     ELSE /\ thrown' = "TypeError"
          /\ mounted' = FALSE
          /\ UNCHANGED formData
  /\ UNCHANGED <<isLoading, inflight, validated, login>>

\* [...prev.documents, ...files]
handleDocumentUpload(files) ==
  /\ mounted
  /\ formData' = SetKey(formData, "documents", formData.documents \o files)
  /\ lastEvent' = [op |-> "handleDocumentUpload", files |-> files]
  /\ Quiet
  /\ UNCHANGED <<isLoading, mounted, inflight, validated, login>>

\* arr.filter((_, i) => i !== index), i counting from `from`
RECURSIVE FilterIndex(_, _, _)
FilterIndex(arr, from, index) ==
  IF arr = <<>> THEN <<>>
  ELSE (IF from /= index THEN <<Head(arr)>> ELSE <<>>)
         \o FilterIndex(Tail(arr), from + 1, index)

\* a removal by value: every entry equal to the one at the index goes
removeDocumentByValue(index) ==
  /\ mounted
  /\ formData' = SetKey(formData, "documents",
                        IF index >= 0 /\ index < Len(formData.documents)
                        THEN FilterOut(formData.documents, formData.documents[index + 1])
                        ELSE formData.documents)
  /\ lastEvent' = [op |-> "removeDocument", index |-> index]
  /\ Quiet
  /\ UNCHANGED <<isLoading, mounted, inflight, validated, login>>

removeDocument(index) ==
  /\ mounted
  /\ formData' = SetKey(formData, "documents", FilterIndex(formData.documents, 0, index))
  /\ lastEvent' = [op |-> "removeDocument", index |-> index]
  /\ Quiet
  /\ UNCHANGED <<isLoading, mounted, inflight, validated, login>>

-----------------------------------------------------------------------------
(* handleSubmit *)

CountryCode == <<"+", "9", "7", "7">>

\* a normalization that prepends the country code without looking at the number
formattedPhoneAlwaysPrefixed(fd) == CountryCode \o fd.phoneNumber

\* formData.phoneNumber.startsWith("+977") ? formData.phoneNumber : `+977${formData.phoneNumber}`
formattedPhone(fd) ==
  IF StartsWith(fd.phoneNumber, CountryCode) THEN fd.phoneNumber
  ELSE CountryCode \o fd.phoneNumber

\* a payload whose name is taken from the center name
apiDataNameFromCenter(fd) ==
  [ name               |-> fd.centerName,
    email              |-> fd.email,
    password           |-> fd.password,
    phone              |-> formattedPhone(fd),
    role               |-> "CENTER",
    centerName         |-> fd.centerName,
    address            |-> fd.address,
    region             |-> fd.region,
    operationalDetails |-> fd.operationalDetails,
    services           |-> fd.services ]

\* a payload that also carries the staged documents
apiDataWithDocuments(fd) ==
  [ name               |-> fd.contactPersonName,
    email              |-> fd.email,
    password           |-> fd.password,
    phone              |-> formattedPhone(fd),
    role               |-> "CENTER",
    centerName         |-> fd.centerName,
    address            |-> fd.address,
    region             |-> fd.region,
    operationalDetails |-> fd.operationalDetails,
    services           |-> fd.services,
    documents          |-> fd.documents ]

apiData(fd) ==
  [ name               |-> fd.contactPersonName,
    email              |-> fd.email,
    password           |-> fd.password,
    phone              |-> formattedPhone(fd),
    role               |-> "CENTER",
    centerName         |-> fd.centerName,
    address            |-> fd.address,
    region             |-> fd.region,
    operationalDetails |-> fd.operationalDetails,
    services           |-> fd.services ]

\* a handleSubmit whose validation branch returns without setIsLoading(false)
handleSubmitKeepsLoading ==
  /\ mounted
  /\ validateForm(formData) = null => Len(inflight) < MaxInFlight
  /\ lastEvent' = [op |-> "handleSubmit"]
  /\ notified' = 0
  /\ thrown' = "none"
  /\ IF validateForm(formData) /= null
     THEN /\ alerts' = <<validateForm(formData)>>
          /\ setIsLoading(TRUE)
          /\ posted' = <<>>
          /\ UNCHANGED inflight
     ELSE /\ alerts' = <<>>
          /\ setIsLoading(TRUE)
          /\ posted' = <<apiData(formData)>>
          /\ inflight' = Append(inflight, apiData(formData))
  /\ UNCHANGED <<formData, mounted, validated, login>>

\* the submit handler up to its await: setIsLoading(true), validateForm, and
\* either the alert of the violation or the POST of apiData
handleSubmit ==
  /\ mounted
  /\ validateForm(formData) = null => Len(inflight) < MaxInFlight
  /\ lastEvent' = [op |-> "handleSubmit"]
  /\ notified' = 0
  /\ thrown' = "none"
  /\ IF validateForm(formData) /= null
     THEN /\ alerts' = <<validateForm(formData)>>
          /\ setIsLoading(FALSE)
          /\ posted' = <<>>
          /\ UNCHANGED inflight
     ELSE /\ alerts' = <<>>
          /\ setIsLoading(TRUE)
          /\ posted' = <<apiData(formData)>>
          /\ inflight' = Append(inflight, apiData(formData))
  /\ UNCHANGED <<formData, mounted, validated, login>>

\* the sequence without its i-th entry
RemoveAt(seq, i) == SubSeq(seq, 1, i - 1) \o SubSeq(seq, i + 1, Len(seq))

\* a catch block that forgets setIsLoading(false)
handleSubmitCatchKeepsLoading(error) ==
  /\ UNCHANGED isLoading
  /\ alerts' =
       IF error.hasResponse /\ HasKey(error.data, "errors") /\ Len(error.data.errors) > 0
       THEN <<"Validation errors:\n" \o errorMessages(error.data.errors)>>
       ELSE IF error.hasResponse THEN <<MessageOr(error.data, MsgErrorFallback)>>
       ELSE <<MsgErrorFallback>>
  /\ notified' = 0
  /\ UNCHANGED mounted

\* a catch block that displays error.message when the error carries no response
handleSubmitCatchShowsErrorMessage(error) ==
  /\ setIsLoading(FALSE)
  /\ alerts' =
       IF error.hasResponse /\ HasKey(error.data, "errors") /\ Len(error.data.errors) > 0
       THEN <<"Validation errors:\n" \o errorMessages(error.data.errors)>>
       ELSE IF error.hasResponse THEN <<MessageOr(error.data, MsgErrorFallback)>>
       ELSE <<MessageOr(error, MsgErrorFallback)>>
  /\ notified' = 0
  /\ UNCHANGED mounted

\* the catch block of handleSubmit, for an error with or without a response
handleSubmitCatch(error) ==
  /\ setIsLoading(FALSE)
  /\ alerts' =
       IF error.hasResponse /\ HasKey(error.data, "errors") /\ Len(error.data.errors) > 0
       THEN <<"Validation errors:\n" \o errorMessages(error.data.errors)>>
       ELSE IF error.hasResponse THEN <<MessageOr(error.data, MsgErrorFallback)>>
       ELSE <<MsgErrorFallback>>
  /\ notified' = 0
  /\ UNCHANGED mounted

\* the TypeError raised by response.data.success when response.data is undefined
NoDataTypeError ==
  [kind |-> "rejected", hasResponse |-> FALSE,
   message |-> "Cannot read properties of undefined (reading 'success')"]

\* a continuation that reports success whatever the success flag says
handleSubmitResolvedIgnoresFlag(response) ==
  IF ~response.hasData
  THEN handleSubmitCatch(NoDataTypeError)
  ELSE /\ setIsLoading(FALSE)
       /\ alerts' = <<MsgSubmitted>>
       /\ notified' = 1
       /\ onSignupSuccess

\* the continuation of handleSubmit after the await resolved
handleSubmitResolved(response) ==
  IF ~response.hasData
  THEN handleSubmitCatch(NoDataTypeError)
  ELSE IF response.data.success
  THEN /\ setIsLoading(FALSE)
       /\ alerts' = <<MsgSubmitted>>
       /\ notified' = 1
       /\ onSignupSuccess
  ELSE /\ setIsLoading(FALSE)
       /\ alerts' = <<MessageOr(response.data, MsgFailedFallback)>>
       /\ notified' = 0
       /\ UNCHANGED mounted

\* a continuation that resets the draft to its defaults when the submission failed
RespondResetsDraft(i, response) ==
  /\ i \in 1..Len(inflight)
  /\ inflight' = RemoveAt(inflight, i)
  /\ lastEvent' = [op |-> "response", response |-> response]
  /\ IF response.kind = "resolved"
     THEN handleSubmitResolved(response)
     ELSE handleSubmitCatch(response)
  /\ posted' = <<>>
  /\ thrown' = "none"
  /\ formData' = IF response.kind = "resolved" /\ response.hasData /\ response.data.success
                 THEN formData ELSE InitialFormData
  /\ UNCHANGED <<validated, login>>

\* the response of the i-th outstanding request arrives
Respond(i, response) ==
  /\ i \in 1..Len(inflight)
  /\ inflight' = RemoveAt(inflight, i)
  /\ lastEvent' = [op |-> "response", response |-> response]
  /\ IF response.kind = "resolved"
     THEN handleSubmitResolved(response)
     ELSE handleSubmitCatch(response)
  /\ posted' = <<>>
  /\ thrown' = "none"
  /\ UNCHANGED <<formData, validated, login>>

-----------------------------------------------------------------------------
(* The login page *)

LowerAlphabet ==
  <<"a", "b", "c", "d", "e", "f", "g", "h", "i", "j", "k", "l", "m",
    "n", "o", "p", "q", "r", "s", "t", "u", "v", "w", "x", "y", "z">>
UpperAlphabet ==
  <<"A", "B", "C", "D", "E", "F", "G", "H", "I", "J", "K", "L", "M",
    "N", "O", "P", "Q", "R", "S", "T", "U", "V", "W", "X", "Y", "Z">>

\* string.toUpperCase(), on character sequences
toUpperCase(str) ==
  [i \in 1..Len(str) |->
     IF \E k \in 1..Len(LowerAlphabet) : LowerAlphabet[k] = str[i]
     THEN UpperAlphabet[CHOOSE k \in 1..Len(LowerAlphabet) : LowerAlphabet[k] = str[i]]
     ELSE str[i]]

\* string.toLowerCase(), on character sequences
toLowerCase(str) ==
  [i \in 1..Len(str) |->
     IF \E k \in 1..Len(UpperAlphabet) : UpperAlphabet[k] = str[i]
     THEN LowerAlphabet[CHOOSE k \in 1..Len(UpperAlphabet) : UpperAlphabet[k] = str[i]]
     ELSE str[i]]

\* the value of each role button
roleOptions ==
  << <<"a", "d", "m", "i", "n">>,
     <<"v", "e", "n", "d", "o", "r">>,
     <<"c", "e", "n", "t", "e", "r">> >>

MsgSelectRole  == "Please select your role"
MsgLoginFailed == "Login failed. Please check your credentials."
MsgLoginError  == "An error occurred during login. Please try again."

\* the page after construction; pending, sent, handoff and op are the
\* requests awaiting their response, the bodies posted by the last step, the
\* arguments of the onLogin calls of the last step, and the last step itself
InitialLogin ==
  [ email        |-> "",
    password     |-> "",
    selectedRole |-> <<>>,
    isLoading    |-> FALSE,
    error        |-> "",
    mounted      |-> TRUE,
    pending      |-> <<>>,
    sent         |-> <<>>,
    handoff      |-> <<>>,
    op           |-> [op |-> "mount"] ]

signupVars == <<formData, isLoading, mounted, inflight, lastEvent, alerts, posted,
                notified, thrown, validated>>

\* a state setter of the login page: without effect once the page is unmounted
LoginSet(page, field, value) ==
  IF login.mounted THEN [page EXCEPT ![field] = value] ELSE page

LoginEmails == {"", "asha@example.np"}
LoginPasswords == {"", "s3cret"}

\* onChange of the email input
EmailChange ==
  /\ login.mounted
  /\ \E value \in LoginEmails :
       login' = [LoginSet(login, "email", value) EXCEPT
                   !.sent = <<>>, !.handoff = <<>>,
                   !.op = [op |-> "email", value |-> value]]
  /\ UNCHANGED signupVars

\* onChange of the password input
LoginPasswordChange ==
  /\ login.mounted
  /\ \E value \in LoginPasswords :
       login' = [LoginSet(login, "password", value) EXCEPT
                   !.sent = <<>>, !.handoff = <<>>,
                   !.op = [op |-> "password", value |-> value]]
  /\ UNCHANGED signupVars

\* onClick of a role button: setSelectedRole(role.value)
RoleClick ==
  /\ login.mounted
  /\ \E k \in 1..Len(roleOptions) :
       login' = [LoginSet(login, "selectedRole", roleOptions[k]) EXCEPT
                   !.sent = <<>>, !.handoff = <<>>,
                   !.op = [op |-> "role", value |-> roleOptions[k]]]
  /\ UNCHANGED signupVars

\* a body that carries the role as it is selected
loginBodyRoleAsSelected(page) ==
  [ email    |-> page.email,
    password |-> page.password,
    role     |-> page.selectedRole ]

\* the body of POST /api/auth/login
loginBody(page) ==
  [ email    |-> page.email,
    password |-> page.password,
    role     |-> toUpperCase(page.selectedRole) ]

\* a gate that lets every submit through
roleMissingNever(page) == FALSE

\* the role gate of handleLogin: !selectedRole
roleMissing(page) == page.selectedRole = <<>>

\* handleLogin up to its await: the role gate, then setIsLoading(true),
\* setError("") and the POST
handleLogin ==
  /\ login.mounted
  /\ ~roleMissing(login) => Len(login.pending) < MaxLoginInFlight
  /\ login' =
       IF roleMissing(login)
       THEN [LoginSet(login, "error", MsgSelectRole) EXCEPT
               !.sent = <<>>, !.handoff = <<>>,
               !.op = [op |-> "submit", email |-> login.email,
                       password |-> login.password, role |-> login.selectedRole]]
       ELSE [LoginSet(LoginSet(login, "isLoading", TRUE), "error", "") EXCEPT
               !.pending = Append(@, loginBody(login)),
               !.sent = <<loginBody(login)>>,
               !.handoff = <<>>,
               !.op = [op |-> "submit", email |-> login.email,
                       password |-> login.password, role |-> login.selectedRole]]
  /\ UNCHANGED signupVars

\* what axiosInstance.post("/api/auth/login", ...) can settle with
LoginResponse(kind, hasData, status, success, hasPayload, hasUser, user, message) ==
  [ kind |-> kind, hasData |-> hasData, status |-> status, success |-> success,
    hasPayload |-> hasPayload, hasUser |-> hasUser, user |-> user,
    token |-> "jwt-1", message |-> message ]

LoginUsers ==
  { [id |-> "u1", role |-> <<"A", "D", "M", "I", "N">>],
    [id |-> "u2", role |-> <<"V", "E", "N", "D", "O", "R">>],
    [id |-> "u3", role |-> <<"C", "E", "N", "T", "E", "R">>],
    [id |-> "u4", role |-> <<"A", "d", "m", "i", "n">>],
    [id |-> "u5"] }

NoUser == [id |-> "none"]

LoginResolved ==
  { LoginResponse("resolved", TRUE, 200, TRUE, TRUE, TRUE, u, "") : u \in LoginUsers }
    \cup
  { LoginResponse("resolved", TRUE, 200, TRUE, TRUE, FALSE, NoUser, ""),
    LoginResponse("resolved", TRUE, 200, TRUE, FALSE, FALSE, NoUser, ""),
    LoginResponse("resolved", TRUE, 200, FALSE, FALSE, FALSE, NoUser, "Invalid credentials"),
    LoginResponse("resolved", TRUE, 200, FALSE, FALSE, FALSE, NoUser, ""),
    LoginResponse("resolved", TRUE, 201, TRUE, TRUE, TRUE,
                  [id |-> "u1", role |-> <<"A", "D", "M", "I", "N">>], ""),
    LoginResponse("resolved", FALSE, 200, FALSE, FALSE, FALSE, NoUser, "") }

LoginRejected ==
  { LoginResponse("rejected", TRUE, 401, FALSE, FALSE, FALSE, NoUser, "Invalid credentials"),
    LoginResponse("rejected", FALSE, 0, FALSE, FALSE, FALSE, NoUser, "") }

\* the statement of the try block that throws, if any: the rejected await,
\* data.success on a response without body, data.data.user without data.data
loginThrows(response) ==
  \/ response.kind = "rejected"
  \/ ~response.hasData
  \/ response.status = 200 /\ response.success /\ ~response.hasPayload

\* a handoff of the user as the backend sent it
userHandedOffAsReceived(response) == response.user

\* data.data.user.role = data.data.user.role.toLowerCase(), when both are truthy
userHandedOff(response) ==
  IF response.hasUser /\ HasKey(response.user, "role") /\ response.user.role /= <<>>
  THEN [response.user EXCEPT !.role = toLowerCase(@)]
  ELSE response.user

\* onLogin(user, token): the parent takes the session over and the login page
\* is left
onLogin(page) == [page EXCEPT !.mounted = FALSE]

\* a continuation that empties the password field on a failure
handleLoginSettledClearsPassword(page, response) ==
  IF loginThrows(response)
  THEN LoginSet(LoginSet(LoginSet(page, "error", MsgLoginError), "password", ""),
                "isLoading", FALSE)
  ELSE IF response.status = 200 /\ response.success
       THEN [onLogin(LoginSet(page, "isLoading", FALSE)) EXCEPT
               !.handoff = << [hasUser |-> response.hasUser,
                               user    |-> userHandedOff(response),
                               token   |-> response.token] >>]
       ELSE LoginSet(LoginSet(LoginSet(page, "error",
                                       IF response.message /= "" THEN response.message
                                       ELSE MsgLoginFailed),
                              "password", ""),
                     "isLoading", FALSE)

\* a continuation that hands the session off on success alone, whatever the status
handleLoginSettledIgnoresStatus(page, response) ==
  IF loginThrows(response)
  THEN LoginSet(LoginSet(page, "error", MsgLoginError), "isLoading", FALSE)
  ELSE IF response.success
       THEN [onLogin(LoginSet(page, "isLoading", FALSE)) EXCEPT
               !.handoff = << [hasUser |-> response.hasUser,
                               user    |-> userHandedOff(response),
                               token   |-> response.token] >>]
       ELSE LoginSet(LoginSet(page, "error",
                              IF response.message /= "" THEN response.message
                              ELSE MsgLoginFailed),
                     "isLoading", FALSE)

\* a continuation without the finally block: only the try block releases the flag
handleLoginSettledCatchKeepsLoading(page, response) ==
  IF loginThrows(response)
  THEN LoginSet(page, "error", MsgLoginError)
  ELSE IF response.status = 200 /\ response.success
       THEN [onLogin(LoginSet(page, "isLoading", FALSE)) EXCEPT
               !.handoff = << [hasUser |-> response.hasUser,
                               user    |-> userHandedOff(response),
                               token   |-> response.token] >>]
       ELSE LoginSet(LoginSet(page, "error",
                              IF response.message /= "" THEN response.message
                              ELSE MsgLoginFailed),
                     "isLoading", FALSE)

\* handleLogin after its await: the try block from `const data`, the catch
\* block and the finally block
handleLoginSettled(page, response) ==
  IF loginThrows(response)
  THEN LoginSet(LoginSet(page, "error", MsgLoginError), "isLoading", FALSE)
  ELSE IF response.status = 200 /\ response.success
       THEN [onLogin(LoginSet(page, "isLoading", FALSE)) EXCEPT
               !.handoff = << [hasUser |-> response.hasUser,
                               user    |-> userHandedOff(response),
                               token   |-> response.token] >>]
       ELSE LoginSet(LoginSet(page, "error",
                              IF response.message /= "" THEN response.message
                              ELSE MsgLoginFailed),
                     "isLoading", FALSE)

LoginRespond(i, response) ==
  /\ login' =
       handleLoginSettled(
         [login EXCEPT !.pending = RemoveAt(@, i), !.sent = <<>>, !.handoff = <<>>,
                       !.op = [op |-> "response", request |-> login.pending[i],
                               response |-> response]],
         response)
  /\ UNCHANGED signupVars

LoginSubmit == handleLogin

LoginResolve ==
  \E i \in 1..Len(login.pending) : \E r \in LoginResolved : LoginRespond(i, r)

LoginReject ==
  \E i \in 1..Len(login.pending) : \E e \in LoginRejected : LoginRespond(i, e)

-----------------------------------------------------------------------------
(* The form as the user drives it *)

PasswordInputs ==
  { <<>>,
    <<"A", "b", "1">>,
    <<"a", "b", "c", "d", "e", "f">>,
    <<"A", "b", "c", "1", "2", "3">> }

CapacityTexts == { <<>>, <<"0">>, <<"1", "0", "0">> }

ServiceInputs == {"Storage", "Distribution"}

DayInputs == {"Saturday"}

PasswordChange == \E v \in PasswordInputs : handleInputChange("password", v)

ConfirmPasswordChange == \E v \in PasswordInputs : handleInputChange("confirmPassword", v)

CapacityChange ==
  \E text \in CapacityTexts :
    handleNestedInputChange("operationalDetails", "capacity", ParseIntOrZero(text))

\* a click on a service checkbox reports the opposite of what is rendered
ServiceCheckboxChange ==
  \E service \in ServiceInputs :
    handleArrayInputChange("services", service, ~Includes(formData.services, service))

WorkingDayCheckboxChange ==
  \E day \in DayInputs :
    handleArrayInputChange("operationalDetails.workingDays", day,
                           ~Includes(formData.operationalDetails.workingDays, day))

\* the Cancel button and the "Back to Role Selection" link
Cancel ==
  /\ mounted
  /\ onShowRoleSelection
  /\ lastEvent' = [op |-> "cancel"]
  /\ Quiet
  /\ UNCHANGED <<formData, isLoading, inflight, validated, login>>

Submit == handleSubmit

Resolve == \E i \in 1..Len(inflight) : \E r \in ResolvedResponses : Respond(i, r)

Reject == \E i \in 1..Len(inflight) : \E e \in RejectedErrors : Respond(i, e)

Init ==
  /\ formData = InitialFormData
  /\ isLoading = FALSE
  /\ mounted = TRUE
  /\ inflight = <<>>
  /\ lastEvent = [op |-> "mount"]
  /\ alerts = <<>>
  /\ posted = <<>>
  /\ notified = 0
  /\ thrown = "none"
  /\ validated = null
  /\ login = InitialLogin

Next ==
  \/ PasswordChange
  \/ ConfirmPasswordChange
  \/ CapacityChange
  \/ ServiceCheckboxChange
  \/ WorkingDayCheckboxChange
  \/ Submit
  \/ Resolve
  \/ Reject
  \/ Cancel

Spec == Init /\ [][Next]_vars

-----------------------------------------------------------------------------
(* validateForm called on its own, on drafts drawn from bounded sets *)

PwAlphabet == {"a", "A", "1"}

ValidatePasswords == UNION {[1..n -> PwAlphabet] : n \in 0..MaxPwLen}

\* the confirmations tried against a password: itself and two others
ConfirmationsFor(pw) == {pw, <<>>, <<"A", "b", "c", "1", "2", "3">>}

\* the draft handed to validateForm: the defaults with the validated fields replaced
ValidateDraft(pw, cpw, cap, days, svcs) ==
  [InitialFormData EXCEPT
     !.password = pw,
     !.confirmPassword = cpw,
     !.operationalDetails.capacity = cap,
     !.operationalDetails.workingDays = days,
     !.services = svcs]

ValidateCall ==
  /\ lastEvent.op = "mount"
  /\ validated' = validateForm(formData)
  /\ lastEvent' = [op |-> "validateForm"]
  /\ UNCHANGED <<formData, isLoading, mounted, inflight, alerts, posted, notified, thrown,
               login>>

InitValidate ==
  /\ \E pw \in ValidatePasswords : \E cpw \in ConfirmationsFor(pw) :
       \E cap \in {-1, 0, 1, 100} :
         \E days \in {<<>>, InitialFormData.operationalDetails.workingDays} :
           \E svcs \in {<<>>, InitialFormData.services} :
             formData = ValidateDraft(pw, cpw, cap, days, svcs)
  /\ isLoading = FALSE
  /\ mounted = TRUE
  /\ inflight = <<>>
  /\ lastEvent = [op |-> "mount"]
  /\ alerts = <<>>
  /\ posted = <<>>
  /\ notified = 0
  /\ thrown = "none"
  /\ validated = null
  /\ login = InitialLogin

NextValidate == ValidateCall

SpecValidate == InitValidate /\ [][NextValidate]_vars

-----------------------------------------------------------------------------
(* handleArrayInputChange called on its own, with every input it accepts *)

ArrayFields == {"services", "operationalDetails.workingDays"}

ArrayValues == {"Storage", "Distribution", "Packaging"}

ArrayCall ==
  \E field \in ArrayFields : \E value \in ArrayValues : \E checked \in BOOLEAN :
    /\ (checked /\ HasKey(formData, field)) => Len(formData[field]) < MaxArrayLen
    /\ handleArrayInputChange(field, value, checked)

NextArray == ArrayCall

SpecArray == Init /\ [][NextArray]_vars

-----------------------------------------------------------------------------
(* handleNestedInputChange called on its own, on every field of the two       *)
(* nested records                                                             *)

NestedParents == {"address", "operationalDetails"}

\* the values a field of a nested record is given: text for the address,
\* a number for the capacity, { ...workingHours, start | end } for the hours,
\* a list for the working days
NestedInputs(parent, field) ==
  IF parent = "address" THEN {"", "Pokhara", "33700"}
  ELSE IF field = "capacity" THEN {0, 250}
  ELSE IF field = "workingHours"
       THEN { [formData.operationalDetails.workingHours EXCEPT !.start = "08:30"],
              [formData.operationalDetails.workingHours EXCEPT !.end = "20:00"] }
  ELSE { <<>>, <<"Sunday">> }

NestedCall ==
  \E parent \in NestedParents : \E field \in DOMAIN InitialFormData[parent] :
    \E value \in NestedInputs(parent, field) :
      handleNestedInputChange(parent, field, value)

NextNested == NestedCall

SpecNested == Init /\ [][NextNested]_vars

-----------------------------------------------------------------------------
(* The payload: handleSubmit on drafts as the mutators can leave them, and    *)
(* the phone input with its filter                                            *)

\* text.replace(/\D/g, "")
RECURSIVE DigitsOnly(_)
DigitsOnly(text) ==
  IF text = <<>> THEN <<>>
  ELSE IF Head(text) \in DigitChars THEN <<Head(text)>> \o DigitsOnly(Tail(text))
       ELSE DigitsOnly(Tail(text))

\* text.slice(0, n)
Slice0(text, n) == SubSeq(text, 1, IF Len(text) < n THEN Len(text) ELSE n)

Phone9812345678 == <<"9", "8", "1", "2", "3", "4", "5", "6", "7", "8">>

StoredPhones ==
  { <<>>,
    Phone9812345678,
    <<"+", "9", "7", "7">> \o Phone9812345678,
    <<"+", "9", "7", "7">>,
    <<"+", "9", "7">>,
    <<"9", "7", "7", "1">> }

PhoneTexts ==
  { <<"9", "8", "-", "1">>,
    <<"+", "9", "7", "7">> \o Phone9812345678 }

\* the onChange of the phone input: digits only, at most 10 of them
PhoneChange ==
  \E text \in PhoneTexts :
    handleInputChange("phoneNumber", Slice0(DigitsOnly(text), 10))

ValidPassword == <<"A", "b", "c", "1", "2", "3">>

PayloadDraft(phone, contact, center, mail, pw, region, state, svcs) ==
  [InitialFormData EXCEPT
     !.phoneNumber = phone,
     !.contactPersonName = contact,
     !.centerName = center,
     !.email = mail,
     !.password = pw,
     !.confirmPassword = pw,
     !.region = region,
     !.address.state = state,
     !.services = svcs]

InitPayload ==
  /\ \E phone \in StoredPhones : \E contact \in {"", "Asha Rai"} :
       \E center \in {"", "Pokhara Hub"} : \E mail \in {"", "hub@example.np"} :
         \E pw \in {<<>>, ValidPassword} :
           \E region \in {"", nepalProvinces[4]} : \E state \in {"", nepalProvinces[3]} :
             \E svcs \in {InitialFormData.services, <<"Packaging">>} :
               formData = PayloadDraft(phone, contact, center, mail, pw, region, state, svcs)
  /\ isLoading = FALSE
  /\ mounted = TRUE
  /\ inflight = <<>>
  /\ lastEvent = [op |-> "mount"]
  /\ alerts = <<>>
  /\ posted = <<>>
  /\ notified = 0
  /\ thrown = "none"
  /\ validated = null
  /\ login = InitialLogin

NextPayload ==
  \/ PhoneChange
  \/ Submit

SpecPayload == InitPayload /\ [][NextPayload]_vars

-----------------------------------------------------------------------------
(* The documents: uploads, removals by index, and submits of the draft they   *)
(* are staged in                                                              *)

\* the files picked in one use of the file input, in the order of its FileList
FileLists ==
  { <<>>,
    <<"license.pdf">>,
    <<"permit.png">>,
    <<"license.pdf", "permit.png">>,
    <<"permit.png", "license.pdf">> }

\* onChange of the file input
DocumentUpload ==
  \E files \in FileLists :
    /\ Len(formData.documents) + Len(files) <= MaxDocuments
    /\ handleDocumentUpload(files)

\* removeDocument with an index inside the list (the remove button of an
\* entry) or just outside it
RemoveDocumentCall ==
  \E index \in -1..Len(formData.documents) : removeDocument(index)

InitDocuments ==
  /\ formData = [InitialFormData EXCEPT !.password = <<"A", "b", "c", "1", "2", "3">>,
                                        !.confirmPassword = <<"A", "b", "c", "1", "2", "3">>]
  /\ isLoading = FALSE
  /\ mounted = TRUE
  /\ inflight = <<>>
  /\ lastEvent = [op |-> "mount"]
  /\ alerts = <<>>
  /\ posted = <<>>
  /\ notified = 0
  /\ thrown = "none"
  /\ validated = null
  /\ login = InitialLogin

NextDocuments ==
  \/ DocumentUpload
  \/ RemoveDocumentCall
  \/ Submit

SpecDocuments == InitDocuments /\ [][NextDocuments]_vars

-----------------------------------------------------------------------------
(* The form as the browser submits it: the submit event reaches handleSubmit  *)
(* only when every control of the form satisfies its constraints              *)

\* a form whose selects carry no required attribute
checkValidityWithoutSelects(fd) ==
  /\ fd.centerName /= ""
  /\ fd.contactPersonName /= ""
  /\ fd.email /= ""
  /\ Len(fd.phoneNumber) = 10
  /\ \A i \in 1..Len(fd.phoneNumber) : fd.phoneNumber[i] \in DigitChars
  /\ fd.password /= <<>>
  /\ fd.confirmPassword /= <<>>
  /\ fd.address.street /= ""
  /\ fd.address.city /= ""
  /\ fd.address.pincode /= ""
  /\ fd.operationalDetails.capacity >= 1
  /\ fd.operationalDetails.workingHours.start /= ""
  /\ fd.operationalDetails.workingHours.end /= ""

\* the constraints of the controls: required on every input and select,
\* pattern="[0-9]{10}" on the phone, min="1" on the capacity (the type of the
\* email input and the pattern of the postal code are left unconstrained)
checkValidity(fd) ==
  /\ fd.centerName /= ""
  /\ fd.contactPersonName /= ""
  /\ fd.email /= ""
  /\ Len(fd.phoneNumber) = 10
  /\ \A i \in 1..Len(fd.phoneNumber) : fd.phoneNumber[i] \in DigitChars
  /\ fd.password /= <<>>
  /\ fd.confirmPassword /= <<>>
  /\ fd.address.street /= ""
  /\ fd.address.city /= ""
  /\ fd.address.state /= ""
  /\ fd.address.pincode /= ""
  /\ fd.region /= ""
  /\ fd.operationalDetails.capacity >= 1
  /\ fd.operationalDetails.workingHours.start /= ""
  /\ fd.operationalDetails.workingHours.end /= ""

\* the options of the region select: "" (Select Region) and the provinces
RegionOptions == {""} \cup {nepalProvinces[i] : i \in 1..Len(nepalProvinces)}

\* the options of the state select that are chosen here
StateInputs == {"", nepalProvinces[3], nepalProvinces[7]}

RegionSelect ==
  \E option \in RegionOptions : handleInputChange("region", option)

StateSelect ==
  \E option \in StateInputs : handleNestedInputChange("address", "state", option)

\* <Button type="submit"> inside <form onSubmit={handleSubmit}>
FormSubmit ==
  /\ mounted
  /\ checkValidity(formData)
  /\ handleSubmit

InitForm ==
  /\ \E phone \in {<<>>, Phone9812345678} : \E pw \in {<<"a", "b", "c">>, ValidPassword} :
       formData =
         [PayloadDraft(phone, "Asha Rai", "Pokhara Hub", "hub@example.np", pw,
                       "", "", InitialFormData.services)
            EXCEPT !.address.street = "Lakeside 6",
                   !.address.city = "Pokhara",
                   !.address.pincode = "33700"]
  /\ isLoading = FALSE
  /\ mounted = TRUE
  /\ inflight = <<>>
  /\ lastEvent = [op |-> "mount"]
  /\ alerts = <<>>
  /\ posted = <<>>
  /\ notified = 0
  /\ thrown = "none"
  /\ validated = null
  /\ login = InitialLogin

NextForm ==
  \/ RegionSelect
  \/ StateSelect
  \/ FormSubmit

SpecForm == InitForm /\ [][NextForm]_vars

-----------------------------------------------------------------------------
(* The login page as the user drives it *)

InitLogin ==
  /\ formData = InitialFormData
  /\ isLoading = FALSE
  /\ mounted = TRUE
  /\ inflight = <<>>
  /\ lastEvent = [op |-> "mount"]
  /\ alerts = <<>>
  /\ posted = <<>>
  /\ notified = 0
  /\ thrown = "none"
  /\ validated = null
  /\ login = InitialLogin

NextLogin ==
  \/ EmailChange
  \/ LoginPasswordChange
  \/ RoleClick
  \/ LoginSubmit
  \/ LoginResolve
  \/ LoginReject

SpecLogin == InitLogin /\ [][NextLogin]_vars

-----------------------------------------------------------------------------
(* Properties of the submission controller *)

\* the six rules of the specification, stated on the draft
RuleHolds(fd, k) ==
  CASE k = 1 -> fd.password = fd.confirmPassword
    [] k = 2 -> Len(fd.password) >= 6
    [] k = 3 -> /\ \E i \in DOMAIN fd.password : fd.password[i] \in LowerChars
                /\ \E i \in DOMAIN fd.password : fd.password[i] \in UpperChars
                /\ \E i \in DOMAIN fd.password : fd.password[i] \in DigitChars
    [] k = 4 -> fd.operationalDetails.capacity >= 1
    [] k = 5 -> fd.operationalDetails.workingDays /= <<>>
    [] k = 6 -> fd.services /= <<>>

RuleMessage(k) ==
  CASE k = 1 -> MsgMismatch
    [] k = 2 -> MsgLength
    [] k = 3 -> MsgComplexity
    [] k = 4 -> MsgCapacity
    [] k = 5 -> MsgWorkingDay
    [] k = 6 -> MsgService

DraftViolates(fd) == \E k \in 1..6 : ~RuleHolds(fd, k)

\* C1: at most one register request is in flight at any time (a submit taken
\* while an earlier one still awaits its response issues no second POST).
C1_AtMostOneInFlight == Len(inflight) <= 1

\* C2: a response that arrives after the form was left through Cancel is
\* discarded: no message, no state update, no onSignupSuccess.
C2_StaleResponseDiscarded ==
  [][ (lastEvent.op = "cancel" /\ lastEvent'.op = "response")
        => /\ alerts' = <<>>
           /\ notified' = 0
           /\ isLoading' = isLoading
           /\ formData' = formData ]_vars

\* C3: every response or thrown error handled by the mounted form leaves
\* isLoading false, and the mounted form is never loading with no request
\* outstanding.
C3_LoadingReleased ==
  [][ /\ (mounted /\ lastEvent'.op = "response") => ~isLoading'
      /\ (mounted' /\ inflight' = <<>>) => ~isLoading' ]_vars

C3_Witness ==
  /\ lastEvent.op = "response"
  /\ lastEvent.response.kind = "rejected"
  /\ mounted
  /\ inflight = <<>>
  /\ ~isLoading

\* C4: a submit of a draft that violates a rule posts nothing, alerts exactly
\* one violation message, leaves isLoading false and the draft unchanged; with
\* capacity below 1 as the only violation the message is the capacity message.
C4_ValidationFailureIsLocal ==
  [][ (lastEvent'.op = "handleSubmit" /\ DraftViolates(formData))
        => /\ posted' = <<>>
           /\ inflight' = inflight
           /\ Len(alerts') = 1
           /\ \E k \in 1..6 : ~RuleHolds(formData, k) /\ alerts'[1] = RuleMessage(k)
           /\ ~isLoading'
           /\ formData' = formData
           /\ (\A k \in (1..6) \ {4} : RuleHolds(formData, k))
                => alerts' = <<MsgCapacity>> ]_vars

C4_Witness ==
  /\ lastEvent.op = "handleSubmit"
  /\ formData.operationalDetails.capacity = 0
  /\ \A k \in (1..6) \ {4} : RuleHolds(formData, k)
  /\ alerts = <<MsgCapacity>>
  /\ posted = <<>>
  /\ ~isLoading

\* C5: every register request transmitted carries a draft that satisfies all
\* six rules: the password posted equals the confirmation at submit time, has
\* at least 6 characters with a lowercase letter, an uppercase letter and a
\* digit, capacity is at least 1, working days and services are non-empty.
C5_TransmittedDraftsAreValid ==
  /\ \A i \in 1..Len(inflight) :
       /\ Len(inflight[i].password) >= 6
       /\ \E j \in DOMAIN inflight[i].password : inflight[i].password[j] \in LowerChars
       /\ \E j \in DOMAIN inflight[i].password : inflight[i].password[j] \in UpperChars
       /\ \E j \in DOMAIN inflight[i].password : inflight[i].password[j] \in DigitChars
       /\ inflight[i].operationalDetails.capacity >= 1
       /\ inflight[i].operationalDetails.workingDays /= <<>>
       /\ inflight[i].services /= <<>>
  /\ posted /= <<>> =>
       /\ Len(posted) = 1
       /\ inflight /= <<>> /\ inflight[Len(inflight)] = posted[1]
       /\ posted[1].password = formData.password
       /\ posted[1].password = formData.confirmPassword
       /\ posted[1].operationalDetails = formData.operationalDetails
       /\ posted[1].services = formData.services

C5_Witness ==
  /\ lastEvent.op = "handleSubmit"
  /\ posted /= <<>>
  /\ Len(inflight) = 2
  /\ inflight[1].services /= inflight[2].services

\* C10: when the transport resolves with {success:false, errors:[{field:
\* "email", message:"already registered"}]} the displayed message equals
\* "email: already registered", isLoading is false and the draft is unchanged.
C10_FieldErrorDisplayed ==
  [][ ( /\ mounted
        /\ lastEvent'.op = "response"
        /\ lastEvent'.response.kind = "resolved"
        /\ lastEvent'.response.hasData
        /\ lastEvent'.response.data = EnvFieldErrors )
        => /\ alerts' = <<"email: already registered">>
           /\ ~isLoading'
           /\ formData' = formData ]_vars

\* the last step handled a response of the transport
IsResponse == lastEvent.op = "response"

\* the last step handled a failure envelope: response.data of a resolved
\* promise, or error.response.data of a rejected one
FailedWith(env) ==
  /\ IsResponse
  /\ \/ /\ lastEvent.response.kind = "resolved"
        /\ lastEvent.response.hasData
        /\ lastEvent.response.data = env
     \/ /\ lastEvent.response.kind = "rejected"
        /\ lastEvent.response.hasResponse
        /\ lastEvent.response.data = env

RejectedWith(env) ==
  /\ IsResponse
  /\ lastEvent.response.kind = "rejected"
  /\ lastEvent.response.hasResponse
  /\ lastEvent.response.data = env

ResolvedWith(env) ==
  /\ IsResponse
  /\ lastEvent.response.kind = "resolved"
  /\ lastEvent.response.hasData
  /\ lastEvent.response.data = env

\* the last step handled a transport-level exception: a rejection without a
\* response, or a resolved promise of an unexpected shape (no data)
TransportException ==
  /\ IsResponse
  /\ \/ lastEvent.response.kind = "rejected" /\ ~lastEvent.response.hasResponse
     \/ lastEvent.response.kind = "resolved" /\ ~lastEvent.response.hasData

C12_AlwaysGenericFallback ==
  (FailedWith(EnvMessage) \/ FailedWith(EnvBare))
    => \/ alerts = <<"Failed to submit application. Please try again.">>
       \/ alerts = <<"An error occurred while submitting your application. Please try again.">>

\* C12 amended: a rejection without structured field errors displays the
\* top-level message of the envelope when it carries one, and the generic
\* fallback text of the branch that handled it when it carries none.
C12_MessageElseFallback ==
  /\ FailedWith(EnvMessage) => alerts = <<"Registration is closed">>
  /\ ResolvedWith(EnvBare)
       => alerts = <<"Failed to submit application. Please try again.">>
  /\ RejectedWith(EnvBare)
       => alerts = <<"An error occurred while submitting your application. Please try again.">>

C12_Witness ==
  /\ RejectedWith(EnvMessage)
  /\ alerts = <<"Registration is closed">>

\* C13: a transport-level exception is handled like a failure with the generic
\* fallback message: the generic text is the one message displayed, never the
\* message of the thrown error, nobody is notified and the loading flag of the
\* mounted form is released.
C13_TransportExceptionIsGeneric ==
  TransportException
    => /\ alerts = <<"An error occurred while submitting your application. Please try again.">>
       /\ alerts[1] /= MsgAxiosNetwork
       /\ alerts[1] /= NoDataTypeError.message
       /\ notified = 0
       /\ mounted => ~isLoading

C13_Witness ==
  /\ IsResponse
  /\ lastEvent.response.kind = "rejected"
  /\ ~lastEvent.response.hasResponse
  /\ lastEvent.response.message = "Network Error"
  /\ alerts = <<"An error occurred while submitting your application. Please try again.">>

\* the step to the primed state handled a response other than success:true
FailureResponseStep ==
  /\ lastEvent'.op = "response"
  /\ ~ ( /\ lastEvent'.response.kind = "resolved"
         /\ lastEvent'.response.hasData
         /\ lastEvent'.response.data = EnvSuccess )

\* C14: every failure path (local validation failure, structured rejection,
\* unstructured rejection, transport exception) leaves the draft as it was,
\* the form mounted and editable with isLoading false, and issues no register
\* request; a request is only ever issued by a submit of the user.
C14_FailureKeepsDraftNoRetry ==
  [][ /\ (FailureResponseStep \/ (lastEvent'.op = "handleSubmit" /\ DraftViolates(formData)))
         => /\ formData' = formData
            /\ mounted' = mounted
            /\ mounted => ~isLoading'
            /\ posted' = <<>>
            /\ Len(inflight') <= Len(inflight)
      /\ (posted' /= <<>> \/ Len(inflight') > Len(inflight))
         => lastEvent'.op = "handleSubmit" ]_vars

C14_Witness ==
  /\ ResolvedWith(EnvMessage)
  /\ mounted
  /\ ~isLoading
  /\ inflight = <<>>
  /\ formData.password = <<"A", "b", "c", "1", "2", "3">>
  /\ formData.services = <<"Distribution">>

\* C15: onSignupSuccess is called exactly when a register response has success
\* true, once for that response, and never by any other step.
C15_NotifiedExactlyOnSuccess ==
  notified = IF ResolvedWith(EnvSuccess) THEN 1 ELSE 0

C15_Witness ==
  /\ ResolvedWith(EnvSuccess)
  /\ notified = 1
  /\ alerts = <<MsgSubmitted>>

\* C16: the phone of every transmitted payload starts with "+977": a stored
\* phone that starts with "+977" is sent unchanged, any other is sent as "+977"
\* followed by the stored value ("9812345678" becomes "+9779812345678"), and
\* normalizing a normalized number changes nothing.
C16_PhoneNormalized ==
  /\ \A i \in 1..Len(inflight) :
       /\ Len(inflight[i].phone) >= 4
       /\ SubSeq(inflight[i].phone, 1, 4) = <<"+", "9", "7", "7">>
       /\ formattedPhone([phoneNumber |-> inflight[i].phone]) = inflight[i].phone
  /\ posted /= <<>> =>
       /\ (Len(formData.phoneNumber) >= 4
             /\ SubSeq(formData.phoneNumber, 1, 4) = <<"+", "9", "7", "7">>)
            => posted[1].phone = formData.phoneNumber
       /\ ~(Len(formData.phoneNumber) >= 4
             /\ SubSeq(formData.phoneNumber, 1, 4) = <<"+", "9", "7", "7">>)
            => posted[1].phone = <<"+", "9", "7", "7">> \o formData.phoneNumber
       /\ formData.phoneNumber = Phone9812345678
            => posted[1].phone =
                 <<"+", "9", "7", "7", "9", "8", "1", "2", "3", "4", "5", "6", "7", "8">>

C16_Witness ==
  /\ Len(inflight) = 2
  /\ inflight[1].phone = <<"+", "9", "7", "7">> \o Phone9812345678
  /\ inflight[2].phone = <<"+", "9", "7", "7", "9", "7", "7">> \o SubSeq(Phone9812345678, 1, 7)
  /\ posted /= <<>>

\* C16, the unchanged case: a stored phone that starts with "+977" was posted as it is
C16_WitnessUnchanged ==
  /\ posted /= <<>>
  /\ formData.phoneNumber = <<"+", "9", "7", "7">> \o Phone9812345678
  /\ posted[1].phone = formData.phoneNumber

\* C17: the payload is built from the draft at submit time: name is the
\* contact person name, role the literal "CENTER", centerName, email and
\* password are copied, and address, region, operationalDetails and services
\* are the values of the draft, unmodified.
C17_PayloadFromDraft ==
  posted /= <<>> =>
    /\ Len(posted) = 1
    /\ posted[1].name = formData.contactPersonName
    /\ posted[1].role = "CENTER"
    /\ posted[1].centerName = formData.centerName
    /\ posted[1].email = formData.email
    /\ posted[1].password = formData.password
    /\ posted[1].address = formData.address
    /\ posted[1].region = formData.region
    /\ posted[1].operationalDetails = formData.operationalDetails
    /\ posted[1].services = formData.services

C17_Witness ==
  /\ posted /= <<>>
  /\ formData.contactPersonName = "Asha Rai"
  /\ formData.centerName = "Pokhara Hub"
  /\ formData.services = <<"Packaging">>
  /\ formData.region = "Gandaki Province"
  /\ posted[1].name = "Asha Rai"
  /\ posted[1].centerName = "Pokhara Hub"
  /\ posted[1].services = <<"Packaging">>
  /\ posted[1].region = "Gandaki Province"

ProvinceSet == {nepalProvinces[i] : i \in 1..Len(nepalProvinces)}

\* C18: in every register request transmitted, region and address.state are
\* each one of the seven province names; the empty initial value is never
\* transmitted.
C18_ProvincesTransmitted ==
  \A i \in 1..Len(inflight) :
    /\ inflight[i].region \in ProvinceSet
    /\ inflight[i].address.state \in ProvinceSet

C18_Witness ==
  /\ posted /= <<>>
  /\ posted[1].region = "Karnali Province"
  /\ posted[1].address.state = "Bagmati Province"
  /\ Len(inflight) = 2
  /\ inflight[1].region = "Province 1"

\* C18, the blocked case: a draft that passes validateForm but has no region
\* chosen has been through a validation failure and a transmission
C18_WitnessBlocked ==
  /\ formData.region = ""
  /\ validateForm(formData) = null
  /\ inflight /= <<>>

\* C19: a login submit with no role selected fails locally with the error
\* "Please select your role" and issues no POST /api/auth/login, whatever
\* email and password are entered.
C19_RoleGate ==
  (login.op.op = "submit" /\ login.op.role = <<>>) =>
    /\ login.error = "Please select your role"
    /\ login.sent = <<>>
    /\ login.pending = <<>>

C19_Witness ==
  /\ login.op.op = "submit"
  /\ login.op.role = <<>>
  /\ login.op.email = "asha@example.np"
  /\ login.op.password = "s3cret"
  /\ login.error = "Please select your role"
  /\ login.sent = <<>>

\* C20: every login request transmitted carries the role selected at submit
\* time in upper case, so its role is one of ADMIN, VENDOR, CENTER and never
\* empty.
C20_RoleUpperCase ==
  /\ \A i \in 1..Len(login.pending) :
       login.pending[i].role \in { <<"A", "D", "M", "I", "N">>,
                                   <<"V", "E", "N", "D", "O", "R">>,
                                   <<"C", "E", "N", "T", "E", "R">> }
  /\ login.sent /= <<>> =>
       /\ login.op.op = "submit"
       /\ Len(login.sent) = 1
       /\ login.op.role = <<"a", "d", "m", "i", "n">>
            => login.sent[1].role = <<"A", "D", "M", "I", "N">>
       /\ login.op.role = <<"v", "e", "n", "d", "o", "r">>
            => login.sent[1].role = <<"V", "E", "N", "D", "O", "R">>
       /\ login.op.role = <<"c", "e", "n", "t", "e", "r">>
            => login.sent[1].role = <<"C", "E", "N", "T", "E", "R">>
       /\ login.op.role = login.selectedRole

C20_Witness ==
  /\ Len(login.pending) = 2
  /\ login.pending[1].role = <<"V", "E", "N", "D", "O", "R">>
  /\ login.pending[2].role = <<"C", "E", "N", "T", "E", "R">>
  /\ login.sent /= <<>>
  /\ login.op.role = <<"c", "e", "n", "t", "e", "r">>

\* C21: on a successful login the user handed to onLogin has its role in
\* lower case: a response role "ADMIN" is handed off as "admin", and likewise
\* for every role the backend returns; the rest of the user and the token are
\* handed off as received.
C21_RoleLowerCased ==
  login.handoff /= <<>> =>
    /\ login.op.op = "response"
    /\ login.handoff[1].hasUser = login.op.response.hasUser
    /\ login.handoff[1].token = login.op.response.token
    /\ DOMAIN login.handoff[1].user = DOMAIN login.op.response.user
    /\ login.handoff[1].user.id = login.op.response.user.id
    /\ (login.op.response.hasUser /\ "role" \in DOMAIN login.op.response.user) =>
         /\ Len(login.handoff[1].user.role) = Len(login.op.response.user.role)
         /\ \A i \in 1..Len(login.handoff[1].user.role) :
              \A k \in 1..Len(UpperAlphabet) :
                login.handoff[1].user.role[i] /= UpperAlphabet[k]
         /\ login.op.response.user.role = <<"A", "D", "M", "I", "N">>
              => login.handoff[1].user.role = <<"a", "d", "m", "i", "n">>
         /\ login.op.response.user.role = <<"V", "E", "N", "D", "O", "R">>
              => login.handoff[1].user.role = <<"v", "e", "n", "d", "o", "r">>
         /\ login.op.response.user.role = <<"C", "E", "N", "T", "E", "R">>
              => login.handoff[1].user.role = <<"c", "e", "n", "t", "e", "r">>
         /\ login.op.response.user.role = <<"A", "d", "m", "i", "n">>
              => login.handoff[1].user.role = <<"a", "d", "m", "i", "n">>

C21_Witness ==
  /\ login.handoff /= <<>>
  /\ login.op.response.hasUser
  /\ "role" \in DOMAIN login.op.response.user
  /\ login.op.response.user.role = <<"A", "D", "M", "I", "N">>
  /\ login.handoff[1].user.role = <<"a", "d", "m", "i", "n">>
  /\ login.op.request.role = <<"A", "D", "M", "I", "N">>

\* a login response that is not a success: a rejection envelope, a status
\* other than 200, a rejected promise, or a body that cannot be read
LoginFailureStep ==
  /\ login'.op.op = "response"
  /\ ~ ( /\ login'.op.response.kind = "resolved"
         /\ login'.op.response.hasData
         /\ login'.op.response.hasPayload
         /\ login'.op.response.status = 200
         /\ login'.op.response.success )

\* C22: a failed login (rejection envelope or thrown transport error) sets a
\* non-empty error message, the message of the server or a generic one, and
\* leaves email, password and the selected role unchanged.
C22_FailureKeepsCredentials ==
  [][ LoginFailureStep =>
        /\ login'.email = login.email
        /\ login'.password = login.password
        /\ login'.selectedRole = login.selectedRole
        /\ login'.mounted = login.mounted
        /\ login'.handoff = <<>>
        /\ login.mounted =>
             /\ login'.error /= ""
             /\ login'.op.response.kind = "rejected"
                  => login'.error = "An error occurred during login. Please try again."
             /\ (login'.op.response.kind = "resolved" /\ login'.op.response.hasData
                   /\ ~login'.op.response.success)
                  => login'.error =
                       IF login'.op.response.message = ""
                       THEN "Login failed. Please check your credentials."
                       ELSE login'.op.response.message ]_vars

C22_Witness ==
  /\ login.op.op = "response"
  /\ login.op.response.kind = "resolved"
  /\ login.op.response.message = "Invalid credentials"
  /\ login.error = "Invalid credentials"
  /\ login.email = "asha@example.np"
  /\ login.password = "s3cret"
  /\ login.selectedRole = <<"v", "e", "n", "d", "o", "r">>
  /\ login.mounted

\* C27: each login submit that passes the role gate issues exactly one POST
\* /api/auth/login; onLogin is invoked at most once for a request and only
\* when the response has status 200 and success true; no other step posts or
\* hands a session off.
C27_OnePostOneHandoff ==
  [][ /\ (login'.op.op = "submit" /\ login.selectedRole /= <<>>) =>
           /\ Len(login'.sent) = 1
           /\ login'.pending = Append(login.pending, login'.sent[1])
           /\ login'.handoff = <<>>
      /\ (login'.op.op = "submit" /\ login.selectedRole = <<>>) =>
           /\ login'.sent = <<>>
           /\ login'.pending = login.pending
           /\ login'.handoff = <<>>
      /\ login'.op.op = "response" =>
           /\ login'.sent = <<>>
           /\ Len(login'.pending) = Len(login.pending) - 1
           /\ Len(login'.handoff) <= 1
           /\ login'.handoff /= <<>> =>
                /\ login'.op.response.kind = "resolved"
                /\ login'.op.response.status = 200
                /\ login'.op.response.success
      /\ login'.op.op \notin {"submit", "response"} =>
           /\ login'.sent = <<>>
           /\ login'.handoff = <<>>
           /\ login'.pending = login.pending ]_vars

C27_Witness ==
  /\ login.op.op = "response"
  /\ login.handoff /= <<>>
  /\ login.op.response.status = 200
  /\ login.op.response.success
  /\ Len(login.pending) = 1

\* C27, the status case: a response with success true and a status other
\* than 200 has handed nothing off
C27_WitnessStatus ==
  /\ login.op.op = "response"
  /\ login.op.response.status = 201
  /\ login.op.response.success
  /\ login.handoff = <<>>

\* C28: after a login attempt that passed the role gate settles in any way
\* isLoading is false; the error of a previous attempt is cleared when a new
\* attempt starts; an attempt stopped by the role gate never sets isLoading.
C28_LoginLoadingReleased ==
  [][ /\ login'.op.op = "response" => ~login'.isLoading
      /\ (login'.op.op = "submit" /\ login.selectedRole /= <<>>) =>
           /\ login'.error = ""
           /\ login'.isLoading
      /\ (login'.op.op = "submit" /\ login.selectedRole = <<>>) =>
           /\ login'.isLoading = login.isLoading
           /\ ~login'.isLoading ]_vars

C28_Witness ==
  /\ login.op.op = "response"
  /\ login.op.response.kind = "rejected"
  /\ ~login.isLoading
  /\ login.error = "An error occurred during login. Please try again."
  /\ login.mounted

\* C28, the start of an attempt: the submit has posted, the error is empty
\* and the flag is set
C28_WitnessCleared ==
  /\ login.op.op = "submit"
  /\ login.sent /= <<>>
  /\ login.error = ""
  /\ login.isLoading
  /\ Len(login.pending) = 1

\* C23: handleNestedInputChange(parent, field, value) on address or
\* operationalDetails replaces only that one field: the sibling fields of the
\* nested record and all other top-level fields of the draft keep their values.
C23_NestedFrame ==
  [][ lastEvent'.op = "handleNestedInputChange" =>
        /\ DOMAIN formData' = DOMAIN formData
        /\ \A key \in DOMAIN formData \ {lastEvent'.parent} :
             formData'[key] = formData[key]
        /\ DOMAIN formData'[lastEvent'.parent] = DOMAIN formData[lastEvent'.parent]
        /\ \A sibling \in DOMAIN formData[lastEvent'.parent] \ {lastEvent'.field} :
             formData'[lastEvent'.parent][sibling] = formData[lastEvent'.parent][sibling]
        /\ formData'[lastEvent'.parent][lastEvent'.field] = lastEvent'.value ]_vars

C23_Witness ==
  /\ lastEvent.op = "handleNestedInputChange"
  /\ lastEvent.parent = "address"
  /\ lastEvent.field = "city"
  /\ lastEvent.value = "Pokhara"
  /\ formData.address.city = "Pokhara"
  /\ formData.address.street = "33700"
  /\ formData.address.pincode = "33700"
  /\ formData.operationalDetails.capacity = 250
  /\ formData.operationalDetails.workingHours.start = "08:30"
  /\ formData.operationalDetails.workingHours.end = "20:00"
  /\ formData.operationalDetails.workingDays = <<"Sunday">>

\* C24: the documents list is an ordered sequence: an upload appends the
\* picked files at the end, in order and without de-duplication; removeDocument(i)
\* deletes exactly the entry at index i, keeps the order of the others, and
\* changes nothing for an index outside the list.
C24_DocumentsSequence ==
  [][ /\ lastEvent'.op = "handleDocumentUpload" =>
           /\ Len(formData'.documents) = Len(formData.documents) + Len(lastEvent'.files)
           /\ \A j \in 1..Len(formData.documents) :
                formData'.documents[j] = formData.documents[j]
           /\ \A j \in 1..Len(lastEvent'.files) :
                formData'.documents[Len(formData.documents) + j] = lastEvent'.files[j]
      /\ lastEvent'.op = "removeDocument" =>
           IF lastEvent'.index >= 0 /\ lastEvent'.index < Len(formData.documents)
           THEN /\ Len(formData'.documents) = Len(formData.documents) - 1
                /\ \A j \in 1..lastEvent'.index :
                     formData'.documents[j] = formData.documents[j]
                /\ \A j \in (lastEvent'.index + 1)..(Len(formData.documents) - 1) :
                     formData'.documents[j] = formData.documents[j + 1]
           ELSE formData'.documents = formData.documents
      /\ lastEvent'.op \in {"handleDocumentUpload", "removeDocument"} =>
           \A key \in DOMAIN formData \ {"documents"} : formData'[key] = formData[key] ]_vars

C24_Witness ==
  /\ lastEvent.op = "removeDocument"
  /\ lastEvent.index = 1
  /\ formData.documents = <<"license.pdf", "license.pdf">>

\* C24, the upload of a file that is already staged
C24_WitnessDuplicate ==
  /\ lastEvent.op = "handleDocumentUpload"
  /\ lastEvent.files = <<"permit.png", "license.pdf">>
  /\ formData.documents = <<"license.pdf", "permit.png", "license.pdf">>

\* C26: staged documents and the password confirmation are never transmitted:
\* drafts that differ only in their documents list produce the same register
\* payload, so uploads and removals have no effect on what is sent.
C26_DocumentsNotTransmitted ==
  /\ \A i \in 1..Len(inflight) :
       /\ DOMAIN inflight[i] =
            {"name", "email", "password", "phone", "role", "centerName", "address",
             "region", "operationalDetails", "services"}
       /\ inflight[i] = inflight[1]
  /\ posted /= <<>> =>
       \A files \in FileLists :
         apiData([formData EXCEPT !.documents = files]) = posted[1]

C26_Witness ==
  /\ posted /= <<>>
  /\ Len(inflight) = 2
  /\ formData.documents = <<"permit.png", "license.pdf">>

\* C25: the loading flag agrees with the request lifecycle: in every
\* reachable state of the mounted form, if a register request is still awaiting
\* its response then isLoading is true, also when submit actions overlap.
C25_LoadingWhilePending ==
  (mounted /\ inflight /= <<>>) => isLoading

-----------------------------------------------------------------------------
(* Properties of validateForm *)

\* C6: validateForm returns the message of the first violated rule in the
\* order mismatch, length, complexity, capacity, working days, services, and
\* null exactly when all six rules hold.
C6_FirstViolatedRuleWins ==
  lastEvent.op = "validateForm" =>
    /\ validated = null <=> \A k \in 1..6 : RuleHolds(formData, k)
    /\ \A k \in 1..6 :
         (~RuleHolds(formData, k) /\ \A j \in 1..(k - 1) : RuleHolds(formData, j))
           => validated = RuleMessage(k)
    /\ formData.password /= formData.confirmPassword => validated = MsgMismatch

C6_Witness ==
  /\ lastEvent.op = "validateForm"
  /\ formData.password = formData.confirmPassword
  /\ Len(formData.password) = 5
  /\ ~RuleHolds(formData, 3)
  /\ ~RuleHolds(formData, 4)
  /\ validated = MsgLength

-----------------------------------------------------------------------------
(* Properties of handleArrayInputChange *)

\* the array a field name or dotted path of the specification addresses
ArrayAt(fd, field) ==
  IF field = "operationalDetails.workingDays"
  THEN fd.operationalDetails.workingDays
  ELSE fd[field]

\* C7: adding is idempotent: a call with checked = true leaves exactly one
\* instance of the value, and no array field ever holds a duplicate.
C7_AddIsIdempotent ==
  /\ \A v \in ArrayValues : Count(formData.services, v) <= 1
  /\ \A d \in ArrayValues : Count(formData.operationalDetails.workingDays, d) <= 1
  /\ (lastEvent.op = "handleArrayInputChange" /\ lastEvent.checked)
       => /\ thrown = "none"
          /\ Count(ArrayAt(formData, lastEvent.field), lastEvent.value) = 1

\* C8: removing deletes every occurrence of the value, keeps the other entries
\* in their order, raises no error, and changes nothing when the value is absent.
C8_RemoveDeletesAll ==
  [][ (lastEvent'.op = "handleArrayInputChange" /\ ~lastEvent'.checked)
        => /\ thrown' = "none"
           /\ ArrayAt(formData', lastEvent'.field)
                = FilterOut(ArrayAt(formData, lastEvent'.field), lastEvent'.value)
           /\ ~Includes(ArrayAt(formData, lastEvent'.field), lastEvent'.value)
                => formData' = formData ]_vars

\* C8 restricted to the top-level array field "services"
C8_RemoveFromServices ==
  [][ ( /\ lastEvent'.op = "handleArrayInputChange"
        /\ ~lastEvent'.checked
        /\ lastEvent'.field = "services" )
        => /\ thrown' = "none"
           /\ formData'.services = FilterOut(formData.services, lastEvent'.value)
           /\ ~Includes(formData.services, lastEvent'.value) => formData' = formData ]_vars

\* C9: toggling a weekday through the path "operationalDetails.workingDays"
\* raises no error, leaves the day in operationalDetails.workingDays exactly
\* when checked was true, leaves capacity and workingHours unchanged and
\* creates no new top-level key.
C9_DottedPathToggle ==
  [][ ( /\ lastEvent'.op = "handleArrayInputChange"
        /\ lastEvent'.field = "operationalDetails.workingDays" )
        => /\ thrown' = "none"
           /\ Includes(formData'.operationalDetails.workingDays, lastEvent'.value)
                <=> lastEvent'.checked
           /\ formData'.operationalDetails.capacity = formData.operationalDetails.capacity
           /\ formData'.operationalDetails.workingHours
                = formData.operationalDetails.workingHours
           /\ DOMAIN formData' = DOMAIN formData ]_vars

====
